---- MODULE Spec2Model ----
(***************************************************************************)
(* Model of supabase/functions/generate-timetable/timetable_generator.py:  *)
(* the TimetableGenerator (lab pass, lecture pass, minimum-fill pass) and  *)
(* the availability / conflict queries it is built on.                     *)
(*                                                                         *)
(* A time string "HH:MM" is the pair <<HH, MM>>.  Python compares the      *)
(* strings themselves in Faculty.is_available (str_le below, character by  *)
(* character, which on two-digit fields is the lexicographic order of the  *)
(* pair) and the parsed datetime.time values in is_earlier_time            *)
(* (parse_time below, minutes since midnight).                             *)
(***************************************************************************)
EXTENDS Integers, Sequences, FiniteSets, TLC

VARIABLES
    faculties,               \* self.faculties   (input, list of Faculty)
    subjects,                \* self.subjects    (input, list of Subject)
    classes,                 \* self.classes     (input, list of ClassBatch)
    resources,               \* self.resources   (input, list of Resource)
    timetable,               \* self.timetable   (list of TimetableEntry)
    subject_lecture_counts,  \* dict class id -> dict subject id -> int
    batch_lab_counts,        \* dict class id -> dict subject id -> dict batch -> int
    pc,                      \* where generate() stands
    k,                       \* index of the current item of the running pass
    di,                      \* index into DAYS_OF_WEEK of the running scan
    ti,                      \* index into TIME_SLOTS / LAB_SLOTS of the running scan
    si,                      \* index into class_obj.subjects (minimum-fill pass)
    lectures_added,          \* local of schedule_lectures
    lecture_count,           \* local of fill_minimum_lectures
    calls,                   \* number of generate() calls started
    issues,                  \* what validate_timetable() last returned
    validated,               \* validate_timetable() calls since generate() was last called
    slot_a,                  \* first argument of an is_time_overlap call
    slot_b,                  \* second argument of an is_time_overlap call
    overlap                  \* what the is_time_overlap call returned

vars == <<faculties, subjects, classes, resources, timetable,
          subject_lecture_counts, batch_lab_counts, pc, k, di, ti, si,
          lectures_added, lecture_count, calls, issues, validated,
          slot_a, slot_b, overlap>>

inputs == <<faculties, subjects, classes, resources>>

\* the caller's side of validate_timetable()
report == <<issues, validated>>

\* a direct call of the module-level function is_time_overlap
probe == <<slot_a, slot_b, overlap>>

-----------------------------------------------------------------------------
(* Bounds *)

\* generate() may be called this many times on one generator
MaxCalls == 2

\* validate_timetable() may be called this many times between two generate() calls
MaxValidations == 2

\* the last hour of the times is_time_overlap is called on directly
MaxHour == 10

-----------------------------------------------------------------------------
(* Types and constants of the program *)

\* Python's None (an absent batch, a failed lookup)
None == "None"

\* a lookup that found nothing, for the lookups that return an object
NoObject == [id |-> None]

TimeSlot(start, end) == [start |-> start, end |-> end]

DAYS_OF_WEEK == <<"Monday", "Tuesday", "Wednesday", "Thursday", "Friday", "Saturday">>

TIME_SLOTS == <<
    TimeSlot(<<9, 15>>, <<10, 15>>),
    TimeSlot(<<10, 15>>, <<11, 15>>),
    TimeSlot(<<11, 15>>, <<12, 15>>),
    TimeSlot(<<12, 15>>, <<13, 5>>),
    TimeSlot(<<13, 35>>, <<14, 35>>),
    TimeSlot(<<14, 35>>, <<15, 35>>) >>

\* LAB_SLOTS with a mistyped afternoon slot
LAB_SLOTS_typo == <<
    TimeSlot(<<9, 15>>, <<11, 15>>),
    TimeSlot(<<12, 35>>, <<14, 35>>) >>

LAB_SLOTS == <<
    TimeSlot(<<9, 15>>, <<11, 15>>),
    TimeSlot(<<13, 35>>, <<15, 35>>) >>

LUNCH_BREAK == TimeSlot(<<13, 5>>, <<13, 35>>)

\* class ClassBatch: batches or ["B1", "B2", "B3"]
DefaultBatches == <<"B1", "B2", "B3">>

\* the name field of the object with this id: the inputs name every object
\* after its id
name_of(id) == <<"name of", id>>

ClassBatch(id, subs, batches) ==
    [id |-> id, name |-> name_of(id), subjects |-> subs,
     batches |-> IF batches = <<>> THEN DefaultBatches ELSE batches]

Faculty(id, position, availability) ==
    [id |-> id, name |-> name_of(id), position |-> position,
     availability |-> availability]

Subject(id, is_lab, faculty_ids) ==
    [id |-> id, name |-> name_of(id), is_lab |-> is_lab, faculty_ids |-> faculty_ids]

Resource(id, type) == [id |-> id, type |-> type]

TimetableEntry(day, time_slot, subject_id, faculty_id, resource_id, class_id, batch) ==
    [day |-> day, time_slot |-> time_slot, subject_id |-> subject_id,
     faculty_id |-> faculty_id, resource_id |-> resource_id,
     class_id |-> class_id, batch |-> batch]

\* max_lectures in can_add_lecture, and the literal 2 of schedule_lectures
max_lectures == 2

\* the literal 4 of schedule_lectures, fill_minimum_lectures and validate_timetable
min_lectures_per_day == 4

-----------------------------------------------------------------------------
(* Time comparison *)

\* str <= str on "HH:MM" strings
str_le(a, b) == a[1] < b[1] \/ (a[1] = b[1] /\ a[2] <= b[2])

\* parse_time: the datetime.time of the string, as minutes since midnight
parse_time(t) == t[1] * 60 + t[2]

\* is_earlier_time with <= for <
is_earlier_time_or_same(time1, time2) == parse_time(time1) <= parse_time(time2)

is_earlier_time(time1, time2) == parse_time(time1) < parse_time(time2)

is_time_overlap(slot1, slot2) ==
    \/ (is_earlier_time(slot1.start, slot2.end) /\ is_earlier_time(slot2.start, slot1.end))
    \/ slot1.start = slot2.start
    \/ slot1.end = slot2.end

-----------------------------------------------------------------------------
(* Sequence helpers *)

Range(s) == {s[i] : i \in 1..Len(s)}

\* the first of the matching elements, or dflt when there is none: a loop
\* that returns at its first match
First(matching, dflt) == IF matching = <<>> THEN dflt ELSE Head(matching)

\* every order random.shuffle can leave the list in
Shuffles(s) ==
    {[i \in 1..Len(s) |-> s[p[i]]] : p \in Permutations(1..Len(s))}

RECURSIVE ConcatTo(_, _)
\* ss[1] \o ... \o ss[n]
ConcatTo(ss, n) == IF n = 0 THEN <<>> ELSE ConcatTo(ss, n - 1) \o ss[n]

\* the concatenation of a sequence of sequences: what nested for loops
\* visit, in order
Concat(ss) == ConcatTo(ss, Len(ss))

RECURSIVE DedupTo(_, _)
\* s[1..n] without the repetitions of an earlier element
DedupTo(s, n) ==
    IF n = 0 THEN <<>>
    ELSE LET r == DedupTo(s, n - 1) IN
         IF s[n] \in Range(r) THEN r ELSE Append(r, s[n])

\* the keys of a dict filled from s, in the order the dict iterates them
Dedup(s) == DedupTo(s, Len(s))

-----------------------------------------------------------------------------
(* Faculty.is_available *)

\* is_available with the test of the end of the range left out
is_available_start_only(faculty, day, time_slot) ==
    IF day \notin DOMAIN faculty.availability
    THEN FALSE
    ELSE \E i \in 1..Len(faculty.availability[day]) :
            str_le(faculty.availability[day][i].start, time_slot.start)

is_available(faculty, day, time_slot) ==
    IF day \notin DOMAIN faculty.availability
    THEN FALSE
    ELSE \E i \in 1..Len(faculty.availability[day]) :
            LET available_slot == faculty.availability[day][i] IN
            /\ str_le(available_slot.start, time_slot.start)
            /\ str_le(time_slot.end, available_slot.end)

-----------------------------------------------------------------------------
(* TimetableGenerator: lookups and conflict queries *)

get_subject(subject_id) ==
    First(SelectSeq(subjects, LAMBDA subject : subject.id = subject_id), NoObject)

get_faculty(faculty_id) ==
    First(SelectSeq(faculties, LAMBDA faculty : faculty.id = faculty_id), NoObject)

get_resource(resource_id) ==
    First(SelectSeq(resources, LAMBDA resource : resource.id = resource_id), NoObject)

\* next((c for c in self.classes if c.id == class_id), None)
get_class(class_id) ==
    First(SelectSeq(classes, LAMBDA c : c.id = class_id), NoObject)

is_faculty_available(faculty_id, day, time_slot) ==
    LET faculty == get_faculty(faculty_id) IN
    IF faculty = NoObject THEN FALSE ELSE is_available(faculty, day, time_slot)

is_resource_available(resource_id, day, time_slot) ==
    ~ \E i \in 1..Len(timetable) :
        LET entry == timetable[i] IN
        /\ entry.resource_id = resource_id
        /\ entry.day = day
        /\ is_time_overlap(entry.time_slot, time_slot)

\* is_faculty_booked with the test of the day left out
is_faculty_booked_any_day(faculty_id, day, time_slot) ==
    \E i \in 1..Len(timetable) :
        /\ timetable[i].faculty_id = faculty_id
        /\ is_time_overlap(timetable[i].time_slot, time_slot)

\* is_faculty_booked comparing the starts of the slots instead of testing overlap
is_faculty_booked_same_start(faculty_id, day, time_slot) ==
    \E i \in 1..Len(timetable) :
        /\ timetable[i].faculty_id = faculty_id
        /\ timetable[i].day = day
        /\ timetable[i].time_slot.start = time_slot.start

is_faculty_booked(faculty_id, day, time_slot) ==
    \E i \in 1..Len(timetable) :
        LET entry == timetable[i] IN
        /\ entry.faculty_id = faculty_id
        /\ entry.day = day
        /\ is_time_overlap(entry.time_slot, time_slot)

\* class_entry_blocks where a whole-class query looks at whole-class entries only
class_entry_blocks_lectures_only(entry, time_slot, batch) ==
    IF batch = None
    THEN entry.batch = None
    ELSE is_time_overlap(entry.time_slot, time_slot)
         /\ (batch = entry.batch \/ entry.batch = None)

\* the whole-class query blocked by an overlapping entry alone
class_entry_blocks_on_overlap(entry, time_slot, batch) ==
    IF batch = None
    THEN is_time_overlap(entry.time_slot, time_slot)
    ELSE IF batch = entry.batch /\ is_time_overlap(entry.time_slot, time_slot)
    THEN TRUE
    ELSE entry.batch = None /\ is_time_overlap(entry.time_slot, time_slot)

\* the entry makes the loop of is_class_available return False
class_entry_blocks(entry, time_slot, batch) ==
    IF batch = None
    THEN entry.batch = None \/ is_time_overlap(entry.time_slot, time_slot)
    ELSE IF batch = entry.batch /\ is_time_overlap(entry.time_slot, time_slot)
    THEN TRUE
    ELSE entry.batch = None /\ is_time_overlap(entry.time_slot, time_slot)

is_class_available(class_id, day, time_slot, batch) ==
    ~ \E i \in 1..Len(timetable) :
        LET entry == timetable[i] IN
        /\ entry.class_id = class_id
        /\ entry.day = day
        /\ class_entry_blocks(entry, time_slot, batch)

\* faculty_candidate_ok taking the first slot to be TIME_SLOTS[0] itself
faculty_candidate_ok_whole_slot(faculty_id, day, time_slot) ==
    LET faculty       == get_faculty(faculty_id)
        is_first_slot == time_slot = TIME_SLOTS[1]
    IN  /\ faculty # NoObject
        /\ ~ (is_first_slot /\ faculty.position = "HOD")
        /\ is_faculty_available(faculty_id, day, time_slot)
        /\ ~ is_faculty_booked(faculty_id, day, time_slot)

\* the test of the candidate loop: the faculty exists, is not an HOD in the
\* first slot, has declared the slot and is not booked in it
faculty_candidate_ok(faculty_id, day, time_slot) ==
    LET faculty       == get_faculty(faculty_id)
        is_first_slot == time_slot.start = TIME_SLOTS[1].start
    IN  /\ faculty # NoObject
        /\ ~ (is_first_slot /\ faculty.position = "HOD")
        /\ is_faculty_available(faculty_id, day, time_slot)
        /\ ~ is_faculty_booked(faculty_id, day, time_slot)

\* faculty_ids is the copy of subject.faculty_ids as random.shuffle left it
get_available_faculty_for_subject(subject_id, day, time_slot, faculty_ids) ==
    IF get_subject(subject_id) = NoObject
    THEN None
    ELSE First(SelectSeq(faculty_ids,
                         LAMBDA faculty_id : faculty_candidate_ok(faculty_id, day, time_slot)),
               None)

\* [r for r in self.resources if r.type == resource_type]
\* the filter on the type forgotten
resources_of_any_type(is_lab) == resources

resources_of_type(is_lab) ==
    LET resource_type == IF is_lab THEN "lab" ELSE "classroom" IN
    SelectSeq(resources, LAMBDA r : r.type = resource_type)

\* get_available_resource returning the first resource without asking whether it is free
get_available_resource_unchecked(is_lab, day, time_slot, shuffled) ==
    IF shuffled = <<>> THEN None ELSE shuffled[1].id

\* shuffled is the list of resources of the type as random.shuffle left it
get_available_resource(is_lab, day, time_slot, shuffled) ==
    First(SelectSeq(shuffled,
                    LAMBDA resource : is_resource_available(resource.id, day, time_slot)),
          NoObject).id

\* can_add_lecture with <= for <
can_add_lecture_le(class_id, subject_id) ==
    subject_lecture_counts[class_id][subject_id] <= max_lectures

can_add_lecture(class_id, subject_id) ==
    subject_lecture_counts[class_id][subject_id] < max_lectures

get_lab_subjects_for_class(class_id) ==
    LET class_obj == get_class(class_id) IN
    IF class_obj = NoObject
    THEN <<>>
    ELSE SelectSeq(class_obj.subjects,
                   LAMBDA subject_id : LET subject == get_subject(subject_id) IN
                                       subject # NoObject /\ subject.is_lab)

count_lectures_on_day(class_id, day) ==
    Cardinality({i \in 1..Len(timetable) :
                    /\ timetable[i].class_id = class_id
                    /\ timetable[i].day = day
                    /\ timetable[i].batch = None})

-----------------------------------------------------------------------------
(* TimetableGenerator.__init__: the counters *)

class_ids == {classes[i].id : i \in 1..Len(classes)}

\* a later class of the same id overwrites the dict entry of an earlier one
last_class(class_id) ==
    LET m == SelectSeq(classes, LAMBDA c : c.id = class_id) IN m[Len(m)]

lab_subject_ids(class_obj) ==
    {subject_id \in Range(class_obj.subjects) :
        LET subject == get_subject(subject_id) IN
        subject # NoObject /\ subject.is_lab}

init_subject_lecture_counts ==
    [class_id \in class_ids |->
        [subject_id \in Range(last_class(class_id).subjects) |-> 0]]

init_batch_lab_counts ==
    [class_id \in class_ids |->
        [subject_id \in lab_subject_ids(last_class(class_id)) |->
            [batch \in Range(last_class(class_id).batches) |-> 0]]]

-----------------------------------------------------------------------------
(* add_lecture and add_lab_session.  ret is "True", "False" or "KeyError"  *)
(* (a missing dict key raises and ends the run); timetable and the counts  *)
(* are the values the call leaves behind.                                  *)

\* add_lecture putting the new entry at the head of the list
add_lecture_insert_first(day, time_slot, class_id, subject_id, faculty_ids, shuffled) ==
    LET subject     == get_subject(subject_id)
        faculty_id  == get_available_faculty_for_subject(subject_id, day, time_slot, faculty_ids)
        resource_id == get_available_resource(subject.is_lab, day, time_slot, shuffled)
        unchanged(ret) == [ret |-> ret, timetable |-> timetable,
                           subject_lecture_counts |-> subject_lecture_counts]
        entry       == TimetableEntry(day, time_slot, subject_id, faculty_id,
                                      resource_id, class_id, None)
    IN  IF subject = NoObject THEN unchanged("False")
        ELSE IF subject_id \notin DOMAIN subject_lecture_counts[class_id]
        THEN unchanged("KeyError")
        ELSE IF ~ can_add_lecture(class_id, subject_id) THEN unchanged("False")
        ELSE IF faculty_id = None THEN unchanged("False")
        ELSE IF resource_id = None THEN unchanged("False")
        ELSE IF ~ is_class_available(class_id, day, time_slot, None) THEN unchanged("False")
        ELSE [ret |-> "True",
              timetable |-> <<entry>> \o timetable,
              subject_lecture_counts |->
                  [subject_lecture_counts EXCEPT ![class_id][subject_id] = @ + 1]]

add_lecture(day, time_slot, class_id, subject_id, faculty_ids, shuffled) ==
    LET subject     == get_subject(subject_id)
        faculty_id  == get_available_faculty_for_subject(subject_id, day, time_slot, faculty_ids)
        resource_id == get_available_resource(subject.is_lab, day, time_slot, shuffled)
        unchanged(ret) == [ret |-> ret, timetable |-> timetable,
                           subject_lecture_counts |-> subject_lecture_counts]
        entry       == TimetableEntry(day, time_slot, subject_id, faculty_id,
                                      resource_id, class_id, None)
    IN  IF subject = NoObject THEN unchanged("False")
        ELSE IF subject_id \notin DOMAIN subject_lecture_counts[class_id]
        THEN unchanged("KeyError")
        ELSE IF ~ can_add_lecture(class_id, subject_id) THEN unchanged("False")
        ELSE IF faculty_id = None THEN unchanged("False")
        ELSE IF resource_id = None THEN unchanged("False")
        ELSE IF ~ is_class_available(class_id, day, time_slot, None) THEN unchanged("False")
        ELSE [ret |-> "True",
              timetable |-> Append(timetable, entry),
              subject_lecture_counts |->
                  [subject_lecture_counts EXCEPT ![class_id][subject_id] = @ + 1]]

add_lab_session(day, lab_slot, class_id, subject_id, batch, faculty_ids, shuffled) ==
    LET subject     == get_subject(subject_id)
        faculty_id  == get_available_faculty_for_subject(subject_id, day, lab_slot, faculty_ids)
        resource_id == get_available_resource(TRUE, day, lab_slot, shuffled)
        unchanged(ret) == [ret |-> ret, timetable |-> timetable,
                           batch_lab_counts |-> batch_lab_counts]
        entry       == TimetableEntry(day, lab_slot, subject_id, faculty_id,
                                      resource_id, class_id, batch)
        has_counter == /\ subject_id \in DOMAIN batch_lab_counts[class_id]
                       /\ batch \in DOMAIN batch_lab_counts[class_id][subject_id]
    IN  IF subject = NoObject THEN unchanged("False")
        ELSE IF ~ subject.is_lab THEN unchanged("False")
        ELSE IF ~ is_class_available(class_id, day, lab_slot, batch) THEN unchanged("False")
        ELSE IF faculty_id = None THEN unchanged("False")
        ELSE IF resource_id = None THEN unchanged("False")
        ELSE IF ~ has_counter
        THEN \* the entry is appended before the counter lookup raises
             [ret |-> "KeyError",
              timetable |-> Append(timetable, entry),
              batch_lab_counts |-> batch_lab_counts]
        ELSE [ret |-> "True",
              timetable |-> Append(timetable, entry),
              batch_lab_counts |->
                  [batch_lab_counts EXCEPT ![class_id][subject_id][batch] = @ + 1]]

\* subject.faculty_ids.copy() of get_available_faculty_for_subject
faculty_ids_of(subject_id) ==
    LET subject == get_subject(subject_id) IN
    IF subject = NoObject THEN <<>> ELSE subject.faculty_ids

-----------------------------------------------------------------------------
(* The iteration spaces of the three passes, in loop order.  They depend   *)
(* on the input only, which no pass changes.                               *)

\* schedule_labs: for class_obj / for subject_id in lab_subjects / for batch
LabWork ==
    Concat([ci \in 1..Len(classes) |->
        LET class_obj    == classes[ci]
            lab_subjects == get_lab_subjects_for_class(class_obj.id)
        IN  Concat([j \in 1..Len(lab_subjects) |->
                [b \in 1..Len(class_obj.batches) |->
                    [class_id |-> class_obj.id, subject_id |-> lab_subjects[j],
                     batch |-> class_obj.batches[b]]]])])

\* schedule_lectures skipping the unknown subjects alone
LectureWork_with_lab_subjects ==
    Concat([ci \in 1..Len(classes) |->
        LET class_obj == classes[ci]
            subs == SelectSeq(class_obj.subjects,
                        LAMBDA subject_id : get_subject(subject_id) # NoObject)
        IN  [j \in 1..Len(subs) |-> [class_id |-> class_obj.id, subject_id |-> subs[j]]]])

\* schedule_lectures: for class_obj / for subject_id, lab and unknown subjects skipped
LectureWork ==
    Concat([ci \in 1..Len(classes) |->
        LET class_obj == classes[ci]
            subs == SelectSeq(class_obj.subjects,
                        LAMBDA subject_id : LET subject == get_subject(subject_id) IN
                                            subject # NoObject /\ ~ subject.is_lab)
        IN  [j \in 1..Len(subs) |-> [class_id |-> class_obj.id, subject_id |-> subs[j]]]])

\* fill_minimum_lectures: for class_obj / for day
FillWork ==
    Concat([ci \in 1..Len(classes) |->
        [d \in 1..Len(DAYS_OF_WEEK) |-> [class_obj |-> classes[ci], day |-> DAYS_OF_WEEK[d]]]])

-----------------------------------------------------------------------------
(* Inputs the generator is constructed with *)

WholeDay == TimeSlot(<<9, 15>>, <<15, 35>>)

\* the same range on each of the days
on_days(days, ranges) == [day \in days |-> ranges]

AllDays == Range(DAYS_OF_WEEK)

FacultyInputs == {
    \* an HOD, a senior with two days, a junior who starts late on Monday
    << Faculty("f1", "HOD", on_days(AllDays, <<WholeDay>>)),
       Faculty("f2", "Senior", on_days({"Monday", "Tuesday"}, <<WholeDay>>)),
       Faculty("f3", "Junior",
               [day \in {"Monday", "Wednesday"} |->
                   IF day = "Monday" THEN <<TimeSlot(<<10, 15>>, <<15, 35>>)>>
                   ELSE <<WholeDay>>]) >>,
    \* an id listed twice, and a guest with two short ranges on one day
    << Faculty("f1", "Senior", on_days({"Monday"}, <<WholeDay>>)),
       Faculty("f1", "HOD", on_days(AllDays, <<WholeDay>>)),
       Faculty("f2", "Guest",
               on_days({"Monday", "Saturday"},
                       <<TimeSlot(<<9, 15>>, <<11, 15>>), TimeSlot(<<13, 35>>, <<14, 35>>)>>)),
       Faculty("f3", "HOD", on_days({"Tuesday"}, <<WholeDay>>)) >> }

SubjectInputs == {
    \* a lecture subject, a lab subject, a lab subject only an HOD teaches
    << Subject("s1", FALSE, <<"f1", "f2">>),
       Subject("s2", TRUE, <<"f2", "f3">>),
       Subject("s3", TRUE, <<"f1">>) >>,
    \* an unknown faculty id, an empty faculty list, an id listed twice
    << Subject("s1", FALSE, <<"f2", "fx">>),
       Subject("s2", TRUE, <<"f3", "f2">>),
       Subject("s3", FALSE, <<>>),
       Subject("s2", FALSE, <<"f1">>) >>,
    \* a lab subject nobody teaches and one only unknown ids teach
    << Subject("s1", FALSE, <<"f2", "f1">>),
       Subject("s2", TRUE, <<>>),
       Subject("s3", TRUE, <<"fx", "fy">>) >>,
    \* lecture subjects only unknown ids teach
    << Subject("s1", FALSE, <<"fx">>),
       Subject("s2", TRUE, <<"f2">>),
       Subject("s3", FALSE, <<"fy", "fx">>) >> }

ClassInputs == {
    << ClassBatch("c1", <<"s1", "s2", "s3">>, <<"B1", "B2">>) >>,
    << ClassBatch("c1", <<"s1", "s2">>, <<"B1", "B2">>),
       ClassBatch("c2", <<"s2", "s1", "s3">>, <<"B1">>) >>,
    \* a subject and a batch listed twice, an unknown subject id
    << ClassBatch("c1", <<"s2", "s2", "sx", "s1">>, <<"B1", "B1">>) >>,
    \* a class id listed twice
    << ClassBatch("c1", <<"s1", "s2">>, <<"B1">>),
       ClassBatch("c1", <<"s2", "s3">>, <<"B2">>) >>,
    \* no batches given: the three default batches
    << ClassBatch("c1", <<"s2", "s1">>, <<>>) >> }

ResourceInputs == {
    << Resource("r1", "classroom"), Resource("r2", "lab") >>,
    << Resource("r1", "classroom"), Resource("r2", "classroom"),
       Resource("r3", "lab"), Resource("r4", "lab") >>,
    \* no lab at all
    << Resource("r1", "classroom") >>,
    \* one id for a classroom and a lab
    << Resource("r1", "classroom"), Resource("r1", "lab") >>,
    \* no classroom at all
    << Resource("r2", "lab") >> }

-----------------------------------------------------------------------------
(* State after TimetableGenerator(faculties, subjects, classes, resources) *)

Constructed ==
    /\ timetable = <<>>
    /\ subject_lecture_counts = init_subject_lecture_counts
    /\ batch_lab_counts = init_batch_lab_counts
    /\ pc = "idle"
    /\ k = 1 /\ di = 1 /\ ti = 1 /\ si = 0
    /\ lectures_added = 0 /\ lecture_count = 0
    /\ calls = 0
    /\ issues = None
    /\ validated = 0

\* is_time_overlap has not been called directly
NoProbe == slot_a = None /\ slot_b = None /\ overlap = None

Init ==
    /\ faculties \in FacultyInputs
    /\ subjects \in SubjectInputs
    /\ classes \in ClassInputs
    /\ resources \in ResourceInputs
    /\ Constructed
    /\ NoProbe

-----------------------------------------------------------------------------
(* generate() *)

\* the locals of a pass as they stand when it starts on item n
at_item(n) ==
    /\ k' = n /\ di' = 1 /\ ti' = 1 /\ si' = 0
    /\ lectures_added' = 0 /\ lecture_count' = 0

\* generate() calling schedule_lectures before schedule_labs
Generate_lectures_first ==
    /\ pc \in {"idle", "done", "error"}
    /\ calls < MaxCalls
    /\ calls' = calls + 1
    /\ timetable' = <<>>
    /\ subject_lecture_counts' =
          [class_id \in DOMAIN subject_lecture_counts |->
              [subject_id \in DOMAIN subject_lecture_counts[class_id] |-> 0]]
    /\ batch_lab_counts' =
          [class_id \in DOMAIN batch_lab_counts |->
              [subject_id \in DOMAIN batch_lab_counts[class_id] |->
                  [batch \in DOMAIN batch_lab_counts[class_id][subject_id] |-> 0]]]
    /\ pc' = "lectures"
    /\ k' = 1 /\ di' = 1 /\ ti' = 1 /\ si' = 0
    /\ lectures_added' = 0 /\ lecture_count' = 0
    /\ issues' = None
    /\ validated' = 0
    /\ UNCHANGED <<probe, inputs>>

\* generate() without the reset of the timetable
Generate_keeps_timetable ==
    /\ pc \in {"idle", "done", "error"}
    /\ calls < MaxCalls
    /\ calls' = calls + 1
    /\ timetable' = timetable
    /\ subject_lecture_counts' =
          [class_id \in DOMAIN subject_lecture_counts |->
              [subject_id \in DOMAIN subject_lecture_counts[class_id] |-> 0]]
    /\ batch_lab_counts' =
          [class_id \in DOMAIN batch_lab_counts |->
              [subject_id \in DOMAIN batch_lab_counts[class_id] |->
                  [batch \in DOMAIN batch_lab_counts[class_id][subject_id] |-> 0]]]
    /\ pc' = "labs"
    /\ at_item(1)
    /\ issues' = None
    /\ validated' = 0
    /\ UNCHANGED <<probe, inputs>>

\* lines 523-533: empty the timetable, zero every counter, enter schedule_labs
Generate ==
    /\ pc \in {"idle", "done", "error"}
    /\ calls < MaxCalls
    /\ calls' = calls + 1
    /\ timetable' = <<>>
    /\ subject_lecture_counts' =
          [class_id \in DOMAIN subject_lecture_counts |->
              [subject_id \in DOMAIN subject_lecture_counts[class_id] |-> 0]]
    /\ batch_lab_counts' =
          [class_id \in DOMAIN batch_lab_counts |->
              [subject_id \in DOMAIN batch_lab_counts[class_id] |->
                  [batch \in DOMAIN batch_lab_counts[class_id][subject_id] |-> 0]]]
    /\ pc' = "labs"
    /\ at_item(1)
    /\ issues' = None
    /\ validated' = 0
    /\ UNCHANGED <<probe, inputs>>

\* the scan that goes on after a successful placement
schedule_labs_next_no_break(lab_scheduled) ==
    IF ti < Len(LAB_SLOTS) THEN [k |-> k, di |-> di, ti |-> ti + 1]
    ELSE IF di < Len(DAYS_OF_WEEK) THEN [k |-> k, di |-> di + 1, ti |-> 1]
    ELSE [k |-> k + 1, di |-> 1, ti |-> 1]

\* the scan that tries one lab slot a day: a failure moves on to the next day
schedule_labs_next_one_slot_a_day(lab_scheduled) ==
    IF lab_scheduled THEN [k |-> k + 1, di |-> 1, ti |-> 1]
    ELSE IF di < Len(DAYS_OF_WEEK) THEN [k |-> k, di |-> di + 1, ti |-> 1]
    ELSE [k |-> k + 1, di |-> 1, ti |-> 1]

\* where the loops of schedule_labs stand after an add_lab_session call:
\* lab_scheduled breaks out of both scans, otherwise the next slot, the next
\* day, or (the week exhausted) the next batch
schedule_labs_next(lab_scheduled) ==
    IF lab_scheduled THEN [k |-> k + 1, di |-> 1, ti |-> 1]
    ELSE IF ti < Len(LAB_SLOTS) THEN [k |-> k, di |-> di, ti |-> ti + 1]
    ELSE IF di < Len(DAYS_OF_WEEK) THEN [k |-> k, di |-> di + 1, ti |-> 1]
    ELSE [k |-> k + 1, di |-> 1, ti |-> 1]

\* schedule_labs: one pass of the body of "for lab_slot in LAB_SLOTS"
ScheduleLabsStep ==
    /\ pc = "labs"
    /\ k <= Len(LabWork)
    /\ \E w \in {LabWork[k]} :
       \E faculty_ids \in Shuffles(faculty_ids_of(w.subject_id)),
          shuffled \in Shuffles(resources_of_type(TRUE)) :
          \E r \in {add_lab_session(DAYS_OF_WEEK[di], LAB_SLOTS[ti], w.class_id,
                                   w.subject_id, w.batch, faculty_ids, shuffled)} :
              /\ timetable' = r.timetable
              /\ batch_lab_counts' = r.batch_lab_counts
              /\ IF r.ret = "KeyError"
                 THEN pc' = "error" /\ UNCHANGED <<k, di, ti>>
                 ELSE /\ pc' = pc
                      /\ LET n == schedule_labs_next(r.ret = "True") IN
                         k' = n.k /\ di' = n.di /\ ti' = n.ti
    /\ UNCHANGED <<report, probe, inputs, subject_lecture_counts, si, lectures_added, lecture_count, calls>>

\* line 539: schedule_labs has returned, schedule_lectures starts
ScheduleLabsReturn ==
    /\ pc = "labs"
    /\ k > Len(LabWork)
    /\ pc' = "lectures"
    /\ at_item(1)
    /\ UNCHANGED <<report, probe, inputs, timetable, subject_lecture_counts, batch_lab_counts, calls>>

\* schedule_lectures: one pass of the body of "for day in DAYS_OF_WEEK" up to
\* and including one add_lecture call
ScheduleLecturesStep ==
    /\ pc = "lectures"
    /\ k <= Len(LectureWork)
    /\ \E w \in {LectureWork[k]} :
       LET day       == DAYS_OF_WEEK[di]
           time_slot == TIME_SLOTS[ti]
           \* the day's slots are exhausted or the day is skipped
           next_day  == IF di < Len(DAYS_OF_WEEK)
                        THEN /\ k' = k /\ di' = di + 1 /\ ti' = 1
                             /\ lectures_added' = lectures_added
                        ELSE \* not lecture_added: give up on this subject
                             /\ k' = k + 1 /\ di' = 1 /\ ti' = 1
                             /\ lectures_added' = 0
           next_slot == IF ti < Len(TIME_SLOTS)
                        THEN /\ k' = k /\ di' = di /\ ti' = ti + 1
                             /\ lectures_added' = lectures_added
                        ELSE next_day
       IN  IF count_lectures_on_day(w.class_id, day) >= min_lectures_per_day
           THEN /\ next_day
                /\ UNCHANGED <<pc, timetable, subject_lecture_counts>>
           ELSE IF time_slot.start = LUNCH_BREAK.start
           THEN /\ next_slot
                /\ UNCHANGED <<pc, timetable, subject_lecture_counts>>
           ELSE
             \E faculty_ids \in Shuffles(faculty_ids_of(w.subject_id)),
                shuffled \in Shuffles(resources_of_type(get_subject(w.subject_id).is_lab)) :
                \E r \in {add_lecture(day, time_slot, w.class_id, w.subject_id,
                                     faculty_ids, shuffled)} :
                    /\ timetable' = r.timetable
                    /\ subject_lecture_counts' = r.subject_lecture_counts
                    /\ IF r.ret = "KeyError"
                       THEN pc' = "error" /\ UNCHANGED <<k, di, ti, lectures_added>>
                       ELSE /\ pc' = pc
                            /\ IF r.ret = "True"
                               THEN IF lectures_added + 1 < max_lectures
                                    THEN \* the while loop scans the week again
                                         /\ k' = k /\ di' = 1 /\ ti' = 1
                                         /\ lectures_added' = lectures_added + 1
                                    ELSE /\ k' = k + 1 /\ di' = 1 /\ ti' = 1
                                         /\ lectures_added' = 0
                               ELSE next_slot
    /\ UNCHANGED <<report, probe, inputs, batch_lab_counts, si, lecture_count, calls>>

\* line 542: schedule_lectures has returned, fill_minimum_lectures starts
ScheduleLecturesReturn ==
    /\ pc = "lectures"
    /\ k > Len(LectureWork)
    /\ pc' = "fill"
    /\ at_item(1)
    /\ UNCHANGED <<report, probe, inputs, timetable, subject_lecture_counts, batch_lab_counts, calls>>

\* fill_minimum_lectures: for one (class_obj, day), either the count taken on
\* entry (si = 0) or one pass of the body of "for subject_id in
\* class_obj.subjects" up to and including one add_lecture call
FillMinimumLecturesStep ==
    /\ pc = "fill"
    /\ k <= Len(FillWork)
    /\ \E w \in {FillWork[k]} :
       LET class_obj == w.class_obj
           day       == w.day
           stay(s, t, n) == /\ k' = k /\ si' = s /\ ti' = t /\ lecture_count' = n
                            /\ UNCHANGED <<di, lectures_added>>
           next_subject  == stay(si + 1, 1, lecture_count)
       IN  IF si = 0
           THEN \* lecture_count = self.count_lectures_on_day(class_obj.id, day)
                /\ IF count_lectures_on_day(class_obj.id, day) >= min_lectures_per_day
                   THEN at_item(k + 1)
                   ELSE stay(1, 1, count_lectures_on_day(class_obj.id, day))
                /\ UNCHANGED <<pc, timetable, subject_lecture_counts>>
           ELSE IF si > Len(class_obj.subjects)
           THEN \* not lecture_added: the day is left as it is
                /\ at_item(k + 1)
                /\ UNCHANGED <<pc, timetable, subject_lecture_counts>>
           ELSE
             LET subject_id == class_obj.subjects[si]
                 subject    == get_subject(subject_id)
                 time_slot  == TIME_SLOTS[ti]
             IN  IF subject_id \notin DOMAIN subject_lecture_counts[class_obj.id]
                 THEN \* can_add_lecture raises KeyError
                      /\ pc' = "error"
                      /\ UNCHANGED <<timetable, subject_lecture_counts, k, di, ti, si,
                                     lectures_added, lecture_count>>
                 ELSE IF \/ ~ can_add_lecture(class_obj.id, subject_id)
                         \/ subject = NoObject
                         \/ subject.is_lab
                 THEN /\ next_subject
                      /\ UNCHANGED <<pc, timetable, subject_lecture_counts>>
                 ELSE IF time_slot.start = LUNCH_BREAK.start
                 THEN /\ IF ti < Len(TIME_SLOTS)
                         THEN stay(si, ti + 1, lecture_count)
                         ELSE next_subject
                      /\ UNCHANGED <<pc, timetable, subject_lecture_counts>>
                 ELSE
                   \E faculty_ids \in Shuffles(faculty_ids_of(subject_id)),
                      shuffled \in Shuffles(resources_of_type(subject.is_lab)) :
                      \E r \in {add_lecture(day, time_slot, class_obj.id, subject_id,
                                           faculty_ids, shuffled)} :
                          /\ timetable' = r.timetable
                          /\ subject_lecture_counts' = r.subject_lecture_counts
                          /\ IF r.ret = "KeyError"
                             THEN /\ pc' = "error"
                                  /\ UNCHANGED <<k, di, ti, si, lectures_added, lecture_count>>
                             ELSE /\ pc' = pc
                                  /\ IF r.ret = "True"
                                     THEN IF lecture_count + 1 < min_lectures_per_day
                                          THEN stay(1, 1, lecture_count + 1)
                                          ELSE at_item(k + 1)
                                     ELSE IF ti < Len(TIME_SLOTS)
                                     THEN stay(si, ti + 1, lecture_count)
                                     ELSE next_subject
    /\ UNCHANGED <<report, probe, inputs, batch_lab_counts, calls>>

\* line 544: return self.timetable
GenerateReturn ==
    /\ pc = "fill"
    /\ k > Len(FillWork)
    /\ pc' = "done"
    /\ at_item(1)
    /\ UNCHANGED <<report, probe, inputs, timetable, subject_lecture_counts, batch_lab_counts, calls>>

-----------------------------------------------------------------------------
(* validate_timetable().  A finding is the record of the values its message *)
(* is formatted from; the lists hold the findings in the order appended.    *)

\* issues as a dict that outlives the call and keeps the earlier findings
new_issues_kept ==
    IF validated > 0 THEN issues
    ELSE [hod_first_lecture |-> <<>>, subject_lecture_limit |-> <<>>,
          batch_lab_attendance |-> <<>>, minimum_lectures |-> <<>>,
          lab_timing |-> <<>>]

\* issues = {...}: five empty lists
new_issues ==
    [hod_first_lecture |-> <<>>, subject_lecture_limit |-> <<>>,
     batch_lab_attendance |-> <<>>, minimum_lectures |-> <<>>,
     lab_timing |-> <<>>]

\* class_obj.name if class_obj else class_id
class_name_of(class_id) ==
    LET class_obj == get_class(class_id) IN
    IF class_obj # NoObject THEN class_obj.name ELSE class_id

\* subject.name if subject else subject_id
subject_name_of(subject_id) ==
    LET subject == get_subject(subject_id) IN
    IF subject # NoObject THEN subject.name ELSE subject_id

\* the keys of the counter dicts in iteration order: a key keeps the place
\* of its first insertion, its value is that of the last class of the id
counted_class_ids == Dedup([ci \in 1..Len(classes) |-> classes[ci].id])

counted_subject_ids(class_id) == Dedup(last_class(class_id).subjects)

counted_lab_subject_ids(class_id) ==
    SelectSeq(counted_subject_ids(class_id),
              LAMBDA subject_id : subject_id \in DOMAIN batch_lab_counts[class_id])

counted_batches(class_id) == Dedup(last_class(class_id).batches)

hod_first_lecture_issues ==
    Concat([i \in 1..Len(timetable) |->
        LET entry   == timetable[i]
            faculty == get_faculty(entry.faculty_id)
        IN  IF /\ faculty # NoObject
               /\ faculty.position = "HOD"
               /\ entry.time_slot.start = TIME_SLOTS[1].start
            THEN << [faculty_name |-> faculty.name, day |-> entry.day] >>
            ELSE <<>>])

subject_lecture_limit_issues ==
    Concat([c \in 1..Len(counted_class_ids) |->
        LET class_id == counted_class_ids[c]
            ids      == counted_subject_ids(class_id)
        IN  Concat([j \in 1..Len(ids) |->
                LET count == subject_lecture_counts[class_id][ids[j]] IN
                IF count > 2
                THEN << [subject_name |-> subject_name_of(ids[j]), count |-> count,
                         class_name |-> class_name_of(class_id)] >>
                ELSE <<>>])])

\* the test with < for !=: a batch with two labs goes unreported
lab_count_reported_below_one(count) == count < 1

\* if count != 1
lab_count_reported(count) == count # 1

batch_lab_attendance_issues ==
    Concat([c \in 1..Len(counted_class_ids) |->
        LET class_id == counted_class_ids[c]
            ids      == counted_lab_subject_ids(class_id)
            batches  == counted_batches(class_id)
        IN  Concat([j \in 1..Len(ids) |->
                Concat([b \in 1..Len(batches) |->
                    LET count == batch_lab_counts[class_id][ids[j]][batches[b]] IN
                    IF lab_count_reported(count)
                    THEN << [batch |-> batches[b],
                             class_name |-> class_name_of(class_id),
                             count |-> count,
                             subject_name |-> subject_name_of(ids[j])] >>
                    ELSE <<>>])])])

minimum_lectures_issues ==
    Concat([ci \in 1..Len(classes) |->
        Concat([d \in 1..Len(DAYS_OF_WEEK) |->
            LET lecture_count_on_day == count_lectures_on_day(classes[ci].id, DAYS_OF_WEEK[d]) IN
            IF lecture_count_on_day < min_lectures_per_day
            THEN << [class_name |-> classes[ci].name,
                     lecture_count |-> lecture_count_on_day,
                     day |-> DAYS_OF_WEEK[d]] >>
            ELSE <<>>])])

lab_timing_issues ==
    Concat([i \in 1..Len(timetable) |->
        LET entry == timetable[i] IN
        IF /\ entry.batch # None
           /\ entry.time_slot.start # LAB_SLOTS[1].start
           /\ entry.time_slot.start # LAB_SLOTS[2].start
        THEN << [class_id |-> entry.class_id, day |-> entry.day] >>
        ELSE <<>>])

\* the dict validate_timetable returns
validate_timetable ==
    [hod_first_lecture     |-> new_issues.hod_first_lecture \o hod_first_lecture_issues,
     subject_lecture_limit |-> new_issues.subject_lecture_limit \o subject_lecture_limit_issues,
     batch_lab_attendance  |-> new_issues.batch_lab_attendance \o batch_lab_attendance_issues,
     minimum_lectures      |-> new_issues.minimum_lectures \o minimum_lectures_issues,
     lab_timing            |-> new_issues.lab_timing \o lab_timing_issues]

\* the caller calls validate_timetable() while generate() is not running:
\* before the first run, after a run has returned, or after one has raised
ValidateTimetable ==
    /\ pc \in {"idle", "done", "error"}
    /\ validated < MaxValidations
    /\ validated' = validated + 1
    /\ issues' = validate_timetable
    /\ UNCHANGED <<probe, inputs, timetable, subject_lecture_counts, batch_lab_counts,
                   pc, k, di, ti, si, lectures_added, lecture_count, calls>>

Next ==
    \/ Generate
    \/ ScheduleLabsStep
    \/ ScheduleLabsReturn
    \/ ScheduleLecturesStep
    \/ ScheduleLecturesReturn
    \/ FillMinimumLecturesStep
    \/ GenerateReturn
    \/ ValidateTimetable

Spec == Init /\ [][Next]_vars

-----------------------------------------------------------------------------
(* The sample scenario of create_test_data *)

SampleFaculties == <<
    Faculty("f1", "HOD",
            on_days({"Monday", "Tuesday", "Wednesday", "Thursday", "Friday"}, <<WholeDay>>)),
    Faculty("f2", "Senior",
            on_days({"Monday", "Tuesday", "Wednesday", "Thursday"}, <<WholeDay>>)),
    Faculty("f3", "Junior",
            on_days({"Monday", "Tuesday", "Wednesday", "Friday"}, <<WholeDay>>)),
    Faculty("f4", "Junior",
            [day \in {"Monday", "Wednesday", "Thursday", "Friday"} |->
                IF day = "Wednesday" THEN <<TimeSlot(<<10, 15>>, <<15, 35>>)>>
                ELSE <<WholeDay>>]),
    Faculty("f5", "Guest", on_days({"Tuesday", "Thursday", "Friday"}, <<WholeDay>>)) >>

SampleSubjects == <<
    Subject("s1", FALSE, <<"f1", "f5">>),
    Subject("s2", FALSE, <<"f1", "f3">>),
    Subject("s3", TRUE, <<"f2", "f4">>),
    Subject("s4", TRUE, <<"f2", "f4">>),
    Subject("s5", FALSE, <<"f3", "f5">>) >>

SampleClasses == <<
    ClassBatch("c1", <<"s1", "s2", "s3", "s4">>, <<>>),
    ClassBatch("c2", <<"s2", "s3", "s4", "s5">>, <<>>) >>

SampleResources == <<
    Resource("r1", "classroom"), Resource("r2", "classroom"),
    Resource("r3", "lab"), Resource("r4", "lab") >>

InitSample ==
    /\ faculties = SampleFaculties
    /\ subjects = SampleSubjects
    /\ classes = SampleClasses
    /\ resources = SampleResources
    /\ Constructed
    /\ NoProbe

\* generate() on the sample up to the return of schedule_labs, the only
\* code that writes batch_lab_counts or appends an entry with a batch
NextSample ==
    \/ Generate
    \/ ScheduleLabsStep
    \/ ScheduleLabsReturn

SpecSample == InitSample /\ [][NextSample]_vars

-----------------------------------------------------------------------------
(* is_time_overlap called directly on two slots *)

ProbeTimes == {<<hour, minute>> : hour \in 9..MaxHour, minute \in {5, 15, 35}}

\* every TimeSlot over the times, those that end before they start included
ProbeSlots == {TimeSlot(start, end) : start \in ProbeTimes, end \in ProbeTimes}

InitOverlap ==
    /\ faculties = SampleFaculties
    /\ subjects = SampleSubjects
    /\ classes = SampleClasses
    /\ resources = SampleResources
    /\ Constructed
    /\ slot_a \in ProbeSlots
    /\ slot_b \in ProbeSlots
    /\ overlap = None

\* overlap = is_time_overlap(slot_a, slot_b)
IsTimeOverlap ==
    /\ overlap = None
    /\ overlap' = IF is_time_overlap(slot_a, slot_b) THEN "True" ELSE "False"
    /\ UNCHANGED <<report, inputs, timetable, subject_lecture_counts, batch_lab_counts,
                   pc, k, di, ti, si, lectures_added, lecture_count, calls,
                   slot_a, slot_b>>

NextOverlap == IsTimeOverlap

SpecOverlap == InitOverlap /\ [][NextOverlap]_vars

-----------------------------------------------------------------------------
(* Properties *)

Entries == 1..Len(timetable)

\* the entries of one class, subject and batch (None: the whole class)
entries_of(class_id, subject_id, batch) ==
    {i \in Entries : /\ timetable[i].class_id = class_id
                     /\ timetable[i].subject_id = subject_id
                     /\ timetable[i].batch = batch}

same_day_overlap(i, j) ==
    /\ timetable[i].day = timetable[j].day
    /\ is_time_overlap(timetable[i].time_slot, timetable[j].time_slot)

\* C1: in every state, no two distinct entries with the same faculty id on
\* the same day have overlapping slots
C1_FacultyNeverDoubleBooked ==
    \A i, j \in Entries :
        (i # j /\ timetable[i].faculty_id = timetable[j].faculty_id)
            => ~ same_day_overlap(i, j)

\* a returned schedule in which one faculty teaches two classes on one day
C1_Witness ==
    /\ pc = "done"
    /\ \E i, j \in Entries :
          /\ timetable[i].faculty_id = timetable[j].faculty_id
          /\ timetable[i].day = timetable[j].day
          /\ timetable[i].class_id # timetable[j].class_id

\* C2: in every state, no two distinct entries with the same resource id on
\* the same day have overlapping slots
C2_ResourceNeverDoubleBooked ==
    \A i, j \in Entries :
        (i # j /\ timetable[i].resource_id = timetable[j].resource_id)
            => ~ same_day_overlap(i, j)

\* a returned schedule in which one room is used twice on one day while
\* another room of its kind exists
C2_Witness ==
    /\ pc = "done"
    /\ \E i, j \in Entries :
          /\ i # j
          /\ timetable[i].resource_id = timetable[j].resource_id
          /\ timetable[i].day = timetable[j].day
          /\ Len(resources_of_type(timetable[i].batch # None)) > 1

\* C3: in the returned schedule, within a class and day, two entries of the
\* same batch, two whole-class entries, and a whole-class entry and a batch
\* entry never overlap
C3_ClassAndBatchExclusive ==
    pc = "done" =>
        \A i, j \in Entries :
            (/\ i # j
             /\ timetable[i].class_id = timetable[j].class_id
             /\ \/ timetable[i].batch = timetable[j].batch
                \/ timetable[i].batch = None
                \/ timetable[j].batch = None)
                => ~ same_day_overlap(i, j)

\* a returned schedule with a lecture and a lab of one class on one day
C3_Witness ==
    /\ pc = "done"
    /\ \E i, j \in Entries :
          /\ timetable[i].class_id = timetable[j].class_id
          /\ timetable[i].day = timetable[j].day
          /\ timetable[i].batch = None
          /\ timetable[j].batch # None

is_lecture_subject(subject_id) ==
    get_subject(subject_id) # NoObject /\ ~ get_subject(subject_id).is_lab

\* C4: in every state, for every class and non-lab subject of it, the
\* lecture counter and the number of whole-class entries are at most 2
C4_LectureCap ==
    \A class_id \in DOMAIN subject_lecture_counts :
        \A subject_id \in DOMAIN subject_lecture_counts[class_id] :
            is_lecture_subject(subject_id) =>
                /\ subject_lecture_counts[class_id][subject_id] <= 2
                /\ Cardinality(entries_of(class_id, subject_id, None)) <= 2

\* the minimum-fill pass stands at a subject the lecture pass took to the cap
C4_Witness ==
    /\ pc = "fill"
    /\ k <= Len(FillWork)
    /\ si \in 1..Len(FillWork[k].class_obj.subjects)
    /\ LET class_obj  == FillWork[k].class_obj
           subject_id == class_obj.subjects[si]
       IN  /\ is_lecture_subject(subject_id)
           /\ subject_id \in DOMAIN subject_lecture_counts[class_obj.id]
           /\ subject_lecture_counts[class_obj.id][subject_id] = 2
           /\ count_lectures_on_day(class_obj.id, FillWork[k].day) = 0

\* the lab counter of the triple, or 0 for a triple the dicts do not hold
lab_count(class_id, subject_id, batch) ==
    IF /\ class_id \in DOMAIN batch_lab_counts
       /\ subject_id \in DOMAIN batch_lab_counts[class_id]
       /\ batch \in DOMAIN batch_lab_counts[class_id][subject_id]
    THEN batch_lab_counts[class_id][subject_id][batch]
    ELSE 0

\* every class, lab subject it studies and batch of it has at most one entry
\* and a lab counter of 0 or 1
at_most_one_lab_each ==
    \A ci \in 1..Len(classes) :
        \A subject_id \in lab_subject_ids(classes[ci]) :
            \A batch \in Range(classes[ci].batches) :
                /\ Cardinality(entries_of(classes[ci].id, subject_id, batch)) <= 1
                /\ lab_count(classes[ci].id, subject_id, batch) \in {0, 1}

no_repeats(s) == \A i, j \in 1..Len(s) : s[i] = s[j] => i = j

\* no two classes share an id and no class lists a subject id or a batch
\* label twice
InputWithoutRepeats ==
    /\ no_repeats([ci \in 1..Len(classes) |-> classes[ci].id])
    /\ \A ci \in 1..Len(classes) :
          no_repeats(classes[ci].subjects) /\ no_repeats(classes[ci].batches)

\* C5 as stated: for every input, the returned schedule holds at most one
\* entry per (class, lab subject, batch) and the lab counter is 0 or 1
C5_AtMostOneLabForEveryInput ==
    pc = "done" => at_most_one_lab_each

\* C5 amended: for every input in which no two classes share an id and no
\* class lists a subject id or a batch label twice, the schedule holds at
\* most one entry per (class, lab subject, batch) and the lab counter is 0
\* or 1, in every state up to and including the return of generate()
C5_AtMostOneLab ==
    InputWithoutRepeats => at_most_one_lab_each

\* a returned schedule, input without repeats, in which a batch got its lab
\* on the first day and the class has no entry at all on the last day: the
\* scan stopped although later slots were free
C5_Witness ==
    /\ pc = "done"
    /\ InputWithoutRepeats
    /\ \E i \in Entries :
          /\ timetable[i].batch # None
          /\ timetable[i].day = "Monday"
          /\ lab_count(timetable[i].class_id, timetable[i].subject_id, timetable[i].batch) = 1
          /\ \A j \in Entries : timetable[j].day # "Wednesday"

\* C6: in every state, no entry has an HOD as its faculty and a slot that
\* starts at 09:15
C6_HodNeverAtFirstSlot ==
    \A i \in Entries :
        LET faculty == get_faculty(timetable[i].faculty_id) IN
        (faculty # NoObject /\ faculty.position = "HOD")
            => timetable[i].time_slot.start # <<9, 15>>

\* a lab whose subject only HODs teach is in the schedule (in the afternoon)
C6_Witness ==
    \E i \in Entries :
        /\ timetable[i].batch # None
        /\ faculty_ids_of(timetable[i].subject_id) # <<>>
        /\ \A n \in 1..Len(faculty_ids_of(timetable[i].subject_id)) :
              LET faculty == get_faculty(faculty_ids_of(timetable[i].subject_id)[n]) IN
              faculty # NoObject /\ faculty.position = "HOD"

\* the two lab slots and the six lecture slots as the specification lists them
SpecifiedLabSlots ==
    {TimeSlot(<<9, 15>>, <<11, 15>>), TimeSlot(<<13, 35>>, <<15, 35>>)}

SpecifiedLectureSlots ==
    {TimeSlot(<<9, 15>>, <<10, 15>>), TimeSlot(<<10, 15>>, <<11, 15>>),
     TimeSlot(<<11, 15>>, <<12, 15>>), TimeSlot(<<12, 15>>, <<13, 5>>),
     TimeSlot(<<13, 35>>, <<14, 35>>), TimeSlot(<<14, 35>>, <<15, 35>>)}

\* the slot and the lunch interval 13:05-13:35 have a minute in common
intersects_lunch(time_slot) ==
    /\ parse_time(time_slot.start) < parse_time(<<13, 35>>)
    /\ parse_time(<<13, 5>>) < parse_time(time_slot.end)

\* C7: in the returned schedule every batch entry is at one of the two lab
\* slots, every whole-class entry at one of the six lecture slots, and no
\* entry intersects the lunch interval
C7_CanonicalSlots ==
    pc = "done" =>
        \A i \in Entries :
            /\ timetable[i].batch # None => timetable[i].time_slot \in SpecifiedLabSlots
            /\ timetable[i].batch = None => timetable[i].time_slot \in SpecifiedLectureSlots
            /\ ~ intersects_lunch(timetable[i].time_slot)

\* a returned schedule with a lab in the afternoon slot and a lecture
C7_Witness ==
    /\ pc = "done"
    /\ \E i, j \in Entries :
          /\ timetable[i].batch # None
          /\ timetable[i].time_slot.start = <<13, 35>>
          /\ timetable[j].batch = None

\* the batch labels of the class ids in use
batch_labels == UNION {Range(classes[ci].batches) : ci \in 1..Len(classes)}

\* what C8 says is_class_available returns
class_free_as_specified(class_id, day, time_slot, batch) ==
    ~ \E i \in Entries :
        /\ timetable[i].class_id = class_id
        /\ timetable[i].day = day
        /\ is_time_overlap(timetable[i].time_slot, time_slot)
        /\ (batch = None \/ timetable[i].batch = batch \/ timetable[i].batch = None)

\* C8: is_class_available returns true exactly when, without a batch, no
\* entry of the class on the day overlaps the slot and, with a batch, no
\* entry of that batch and no whole-class entry of the class on the day
\* overlaps the slot
C8_ClassAvailableIffNoOverlap ==
    \A class_id \in class_ids, day \in AllDays,
       time_slot \in Range(TIME_SLOTS) \cup Range(LAB_SLOTS),
       batch \in {None} \cup batch_labels :
        is_class_available(class_id, day, time_slot, batch)
            <=> class_free_as_specified(class_id, day, time_slot, batch)

\* validate_timetable, the batch_lab_attendance findings: the (class,
\* subject, batch) keys of batch_lab_counts whose count is not 1
batch_lab_attendance ==
    {<<class_id, subject_id, batch>> \in
        UNION {UNION {{<<c, s, b>> : b \in DOMAIN batch_lab_counts[c][s]} :
                        s \in DOMAIN batch_lab_counts[c]} :
                 c \in DOMAIN batch_lab_counts} :
        batch_lab_counts[class_id][subject_id][batch] # 1}

\* C9: on the sample scenario, when schedule_labs has returned, each of the
\* 12 (class, lab subject, batch) counters is 1, the 12 sessions are at the
\* two lab slots, and batch_lab_attendance is empty, whatever the shuffles
C9_SampleLabsAllPlaced ==
    pc = "lectures" =>
        /\ \A class_id \in {"c1", "c2"}, subject_id \in {"s3", "s4"},
              batch \in {"B1", "B2", "B3"} :
              /\ lab_count(class_id, subject_id, batch) = 1
              /\ \E i \in Entries :
                    /\ entries_of(class_id, subject_id, batch) = {i}
                    /\ timetable[i].time_slot \in SpecifiedLabSlots
        /\ Len(timetable) = 12
        /\ batch_lab_attendance = {}

\* the entries with a batch, in schedule order
batch_entries == SelectSeq(timetable, LAMBDA entry : entry.batch # None)

\* what C9 rests on for the rest of generate(): once schedule_labs has
\* returned, no step of schedule_lectures or fill_minimum_lectures changes a
\* lab counter or the entries with a batch, whatever the input
LabResultsFixedAfterLabs ==
    [][(pc = "lectures" \/ pc = "fill") =>
          (batch_lab_counts' = batch_lab_counts /\ batch_entries' = batch_entries)]_vars

\* the lab pass on the sample has returned and had to go as far as Thursday
C9_Witness ==
    /\ pc = "lectures"
    /\ faculties = SampleFaculties
    /\ \E i \in Entries : timetable[i].day = "Thursday"

\* C10: in the returned schedule, the faculty of every entry has a declared
\* range on the entry's day that contains the entry's slot
C10_WithinDeclaredAvailability ==
    pc = "done" =>
        \A i \in Entries :
            LET faculty == get_faculty(timetable[i].faculty_id)
                slot    == timetable[i].time_slot
            IN  /\ faculty # NoObject
                /\ timetable[i].day \in DOMAIN faculty.availability
                /\ \E n \in 1..Len(faculty.availability[timetable[i].day]) :
                      LET range == faculty.availability[timetable[i].day][n] IN
                      /\ parse_time(range.start) <= parse_time(slot.start)
                      /\ parse_time(slot.end) <= parse_time(range.end)

\* a returned schedule with an entry of a faculty who has not declared every
\* day and, on the entry's day, not the whole day
C10_Witness ==
    /\ pc = "done"
    /\ \E i \in Entries :
          LET faculty == get_faculty(timetable[i].faculty_id) IN
          /\ DOMAIN faculty.availability # AllDays
          /\ WholeDay \notin Range(faculty.availability[timetable[i].day])

\* the (class id, subject id, batch) keys of batch_lab_counts
lab_counter_keys ==
    UNION {UNION {{<<c, s, b>> : b \in DOMAIN batch_lab_counts[c][s]} :
                    s \in DOMAIN batch_lab_counts[c]} :
             c \in DOMAIN batch_lab_counts}

\* the positions of the batch_lab_attendance findings about the triple
lab_findings_about(key) ==
    {i \in 1..Len(issues.batch_lab_attendance) :
        LET finding == issues.batch_lab_attendance[i] IN
        /\ finding.class_name = class_name_of(key[1])
        /\ finding.subject_name = subject_name_of(key[2])
        /\ finding.batch = key[3]}

\* C11: validate_timetable() called after generate() has returned lists
\* exactly one batch_lab_attendance finding for every (class, lab subject,
\* batch) whose lab counter is not 1 (0 or more than 1), none for a counter
\* of 1, and no other finding in that list
C11_LabFindingIffCountNotOne ==
    (pc = "done" /\ validated > 0) =>
        /\ \A key \in lab_counter_keys :
              Cardinality(lab_findings_about(key)) =
                  IF batch_lab_counts[key[1]][key[2]][key[3]] = 1 THEN 0 ELSE 1
        /\ Len(issues.batch_lab_attendance) =
              Cardinality({key \in lab_counter_keys :
                              batch_lab_counts[key[1]][key[2]][key[3]] # 1})

\* a validated run in which one batch has its lab and another has none
C11_Witness ==
    /\ pc = "done"
    /\ validated > 0
    /\ \E key \in lab_counter_keys : batch_lab_counts[key[1]][key[2]][key[3]] = 1
    /\ \E key \in lab_counter_keys : batch_lab_counts[key[1]][key[2]][key[3]] = 0

\* a validated run in which a triple listed twice got more than one lab
C11_WitnessRepeated ==
    /\ pc = "done"
    /\ validated > 0
    /\ \E key \in lab_counter_keys : batch_lab_counts[key[1]][key[2]][key[3]] > 1

\* the subject exists and its faculty list is empty or names no faculty
no_eligible_faculty(subject_id) ==
    /\ get_subject(subject_id) # NoObject
    /\ \A n \in 1..Len(faculty_ids_of(subject_id)) :
          get_faculty(faculty_ids_of(subject_id)[n]) = NoObject

\* the ids of the subjects the classes list
studied_subject_ids == UNION {Range(classes[ci].subjects) : ci \in 1..Len(classes)}

\* the returned schedule has nothing of the subject: no entry, every counter
\* of it 0 and, once validated, a batch_lab_attendance finding for each
\* batch of each class studying it as a lab subject
subject_left_unplaced(subject_id) ==
    /\ \A i \in Entries : timetable[i].subject_id # subject_id
    /\ \A class_id \in DOMAIN subject_lecture_counts :
          subject_id \in DOMAIN subject_lecture_counts[class_id]
              => subject_lecture_counts[class_id][subject_id] = 0
    /\ \A key \in lab_counter_keys :
          key[2] = subject_id => batch_lab_counts[key[1]][key[2]][key[3]] = 0
    /\ validated > 0 =>
          \A ci \in 1..Len(classes) :
              subject_id \in lab_subject_ids(classes[ci]) =>
                  \A batch \in Range(classes[ci].batches) :
                      lab_findings_about(<<classes[ci].id, subject_id, batch>>) # {}

\* C12: if a subject's faculty list is empty or names only unknown ids, the
\* run never reaches an error state and the returned schedule has no entry
\* of the subject, its counters are 0 and a lab subject has a
\* batch_lab_attendance finding for each batch of each class studying it
C12_NoFacultyNoPlacementNoError ==
    \A subject_id \in studied_subject_ids :
        no_eligible_faculty(subject_id) =>
            /\ pc # "error"
            /\ pc = "done" => subject_left_unplaced(subject_id)

\* the part of C12 about the returned schedule, without the part about the
\* run completing
NoFacultySubjectLeftUnplaced ==
    \A subject_id \in studied_subject_ids :
        (no_eligible_faculty(subject_id) /\ pc = "done")
            => subject_left_unplaced(subject_id)

\* a validated run with entries in which a lab subject nobody can teach has
\* its findings
NoFacultySubjectLeftUnplaced_Witness ==
    /\ pc = "done"
    /\ validated > 0
    /\ Len(timetable) > 0
    /\ \E key \in lab_counter_keys :
          no_eligible_faculty(key[2]) /\ lab_findings_about(key) # {}

\* C13: for every finite input, referential gaps included, generate()
\* terminates and no step of the three passes raises or aborts the run: the
\* run never stands in the error state
C13_NoStepRaises == pc # "error"

\* where the running pass stands, most significant first
position == <<k, lectures_added + lecture_count, di, si, ti>>

RECURSIVE LexLess(_, _)
\* a is before b in the lexicographic order
LexLess(a, b) ==
    /\ a # <<>>
    /\ \/ Head(a) < Head(b)
       \/ Head(a) = Head(b) /\ LexLess(Tail(a), Tail(b))

\* the part of C13 about the loops: every step that stays within a pass
\* moves its position strictly forward, and each component is bounded by
\* the input, so each pass ends after finitely many steps
PassesAdvance ==
    [][(pc \in {"labs", "lectures", "fill"} /\ pc' = pc)
          => LexLess(position, position')]_vars

\* the positions stay within bounds fixed by the input
PositionBounded ==
    /\ k \in 1..(Len(LabWork) + Len(LectureWork) + Len(FillWork) + 1)
    /\ lectures_added \in 0..max_lectures
    /\ lecture_count \in 0..min_lectures_per_day
    /\ di \in 1..Len(DAYS_OF_WEEK)
    /\ ti \in 1..Len(TIME_SLOTS)
    /\ \E ci \in 1..Len(classes) : si \in 0..(Len(classes[ci].subjects) + 1)

\* the second schedule is the first one or the first one with one entry
\* added at its end
same_or_one_appended(before, after) ==
    \/ after = before
    \/ /\ Len(after) = Len(before) + 1
       /\ SubSeq(after, 1, Len(before)) = before

\* one of the three passes of generate() is running
pass_running == pc = "labs" \/ pc = "lectures" \/ pc = "fill"

\* C15: every step taken while a pass of generate() is running leaves the
\* schedule unchanged or appends exactly one entry at its end, and lowers
\* no lecture counter and no lab counter
C15_AppendOnly ==
    [][pass_running =>
          (/\ same_or_one_appended(timetable, timetable')
           /\ \A class_id \in DOMAIN subject_lecture_counts :
                 \A subject_id \in DOMAIN subject_lecture_counts[class_id] :
                     subject_lecture_counts'[class_id][subject_id]
                         >= subject_lecture_counts[class_id][subject_id]
           /\ \A key \in lab_counter_keys :
                 batch_lab_counts'[key[1]][key[2]][key[3]]
                     >= batch_lab_counts[key[1]][key[2]][key[3]])]_vars

\* the minimum-fill pass is running on a schedule that holds labs and
\* lectures, with counters above 0
C15_Witness ==
    /\ pc = "fill"
    /\ \E i, j \in Entries : timetable[i].batch # None /\ timetable[j].batch = None
    /\ \E key \in lab_counter_keys : batch_lab_counts[key[1]][key[2]][key[3]] > 0
    /\ \E class_id \in DOMAIN subject_lecture_counts :
          \E subject_id \in DOMAIN subject_lecture_counts[class_id] :
              subject_lecture_counts[class_id][subject_id] = 2

\* the changes of pc that generate() makes when it runs its passes in the
\* order labs, lectures, minimum-fill, or a pass raises
pass_order ==
    {<<"idle", "labs">>, <<"done", "labs">>, <<"error", "labs">>,
     <<"labs", "lectures">>, <<"lectures", "fill">>, <<"fill", "done">>,
     <<"labs", "error">>, <<"lectures", "error">>, <<"fill", "error">>}

\* in the schedule every entry with a batch precedes every whole-class entry
labs_before_lectures ==
    \A i, j \in Entries :
        (timetable[i].batch # None /\ timetable[j].batch = None) => i < j

\* C16: the passes run in the order labs, lectures, minimum-fill, a pass
\* starts only when the one before it has gone through all its items,
\* entries with a batch are appended by the lab pass only and whole-class
\* entries by the two later passes only, and in the returned schedule every
\* entry with a batch precedes every whole-class entry
C16_PassesInOrder ==
    [][(pc' # pc => <<pc, pc'>> \in pass_order)
       /\ ((pc = "labs" /\ pc' = "lectures") => k > Len(LabWork))
       /\ ((pc = "lectures" /\ pc' = "fill") => k > Len(LectureWork))
       /\ ((pc = "fill" /\ pc' = "done") => k > Len(FillWork))
       /\ ((pass_running /\ timetable' # timetable) =>
              (timetable'[Len(timetable')].batch # None <=> pc = "labs"))
       /\ (pc' = "done" => labs_before_lectures')]_vars

\* the second call of generate() has returned a schedule with labs and
\* lectures
C16_Witness ==
    /\ pc = "done"
    /\ calls = 2
    /\ \E i, j \in Entries : timetable[i].batch # None /\ timetable[j].batch = None

\* C17: a validate_timetable() call leaves the schedule (entries and order),
\* the lecture counters and the lab counters as they were, and a call that
\* directly follows another returns the same findings
C17_ValidateReadOnly ==
    [][validated' = validated + 1 =>
          (/\ timetable' = timetable
           /\ subject_lecture_counts' = subject_lecture_counts
           /\ batch_lab_counts' = batch_lab_counts
           /\ (validated > 0 => issues' = issues))]_vars

\* validate_timetable() has been called twice in a row on a returned
\* schedule with entries, and reported findings of two kinds
C17_Witness ==
    /\ pc = "done"
    /\ validated = 2
    /\ Len(timetable) > 0
    /\ issues.batch_lab_attendance # <<>>
    /\ issues.minimum_lectures # <<>>

\* validate_timetable() has been called twice after a run that raised
C17_WitnessAfterError ==
    pc = "error" /\ validated = 2 /\ Len(timetable) > 0

\* the slot starts strictly before it ends
starts_before_end(slot) == parse_time(slot.start) < parse_time(slot.end)

\* a.start < b.end and b.start < a.end, on the times of day
strictly_intersect(a, b) ==
    /\ parse_time(a.start) < parse_time(b.end)
    /\ parse_time(b.start) < parse_time(a.end)

\* C18: for two slots that each start strictly before they end,
\* is_time_overlap(a, b) is the strict-intersection test, is_time_overlap(b, a)
\* gives the same, and it is false when one slot ends exactly when the other
\* starts
C18_OverlapIsStrictIntersection ==
    (overlap # None /\ starts_before_end(slot_a) /\ starts_before_end(slot_b)) =>
        /\ overlap = "True" <=> strictly_intersect(slot_a, slot_b)
        /\ overlap = "True" <=> is_time_overlap(slot_b, slot_a)
        /\ (slot_a.end = slot_b.start \/ slot_b.end = slot_a.start) => overlap = "False"

\* is_time_overlap has returned true for two slots that start together and
\* end apart
C18_Witness ==
    /\ overlap = "True"
    /\ starts_before_end(slot_a)
    /\ starts_before_end(slot_b)
    /\ slot_a.start = slot_b.start
    /\ slot_a.end # slot_b.end

\* is_time_overlap has returned false for two slots that touch
C18_WitnessTouching ==
    /\ overlap = "False"
    /\ starts_before_end(slot_a)
    /\ starts_before_end(slot_b)
    /\ slot_a.end = slot_b.start

\* the equality clauses do decide the result on a slot that does not start
\* before it ends
C18_WitnessDegenerate ==
    /\ overlap = "True"
    /\ ~ strictly_intersect(slot_a, slot_b)

\* the faculty exists, is not an HOD asked to start at 09:15, has declared a
\* range of the day that contains the slot and has no entry on the day that
\* overlaps the slot
faculty_free_as_specified(faculty_id, day, time_slot) ==
    LET faculty == get_faculty(faculty_id) IN
    /\ faculty # NoObject
    /\ ~ (faculty.position = "HOD" /\ time_slot.start = <<9, 15>>)
    /\ day \in DOMAIN faculty.availability
    /\ \E n \in 1..Len(faculty.availability[day]) :
          /\ parse_time(faculty.availability[day][n].start) <= parse_time(time_slot.start)
          /\ parse_time(time_slot.end) <= parse_time(faculty.availability[day][n].end)
    /\ ~ \E i \in Entries :
          /\ timetable[i].faculty_id = faculty_id
          /\ timetable[i].day = day
          /\ is_time_overlap(timetable[i].time_slot, time_slot)

\* a resource of the type has no entry on the day that overlaps the slot
resource_free_as_specified(type, day, time_slot) ==
    \E n \in 1..Len(resources) :
        /\ resources[n].type = type
        /\ ~ \E i \in Entries :
              /\ timetable[i].resource_id = resources[n].id
              /\ timetable[i].day = day
              /\ is_time_overlap(timetable[i].time_slot, time_slot)

\* under the stated rules a lecture of the subject could be placed for the
\* class at the day and slot: a non-lab subject under its cap of 2, an
\* eligible faculty free, a classroom free, no entry of the class overlapping
lecture_placeable_as_specified(class_id, subject_id, day, time_slot) ==
    /\ is_lecture_subject(subject_id)
    /\ subject_id \in DOMAIN subject_lecture_counts[class_id]
    /\ subject_lecture_counts[class_id][subject_id] < 2
    /\ \E n \in 1..Len(faculty_ids_of(subject_id)) :
          faculty_free_as_specified(faculty_ids_of(subject_id)[n], day, time_slot)
    /\ resource_free_as_specified("classroom", day, time_slot)
    /\ class_free_as_specified(class_id, day, time_slot, None)

\* C19: in the returned schedule, for every class and day with fewer than 4
\* whole-class entries, no non-lab subject of the class under its cap and
\* lecture slot exist at which a lecture could still be placed under the
\* stated rules
C19_UnderTargetDaysAreSaturated ==
    pc = "done" =>
        \A ci \in 1..Len(classes), day \in AllDays :
            count_lectures_on_day(classes[ci].id, day) < 4 =>
                ~ \E subject_id \in Range(classes[ci].subjects),
                     time_slot \in Range(TIME_SLOTS) :
                      lecture_placeable_as_specified(classes[ci].id, subject_id,
                                                     day, time_slot)

\* under the stated rules a lab of the subject could be placed for the batch
\* at the day and slot: the batch free, an eligible faculty free, a lab free
lab_placeable_as_specified(class_id, subject_id, batch, day, lab_slot) ==
    /\ class_free_as_specified(class_id, day, lab_slot, batch)
    /\ \E n \in 1..Len(faculty_ids_of(subject_id)) :
          faculty_free_as_specified(faculty_ids_of(subject_id)[n], day, lab_slot)
    /\ resource_free_as_specified("lab", day, lab_slot)

\* (d, t) comes before (di, ti) in the scan: Monday to Saturday, the
\* morning lab slot before the afternoon one
scanned_before(d, t) == d < di \/ (d = di /\ t < ti)

\* the step is an add_lab_session call of the lab pass
lab_attempt == pc = "labs" /\ k <= Len(LabWork)

\* C20: when the lab pass places a (class, subject, batch), the place is the
\* (day, slot) the scan stands at, a lab is placeable there, and in the
\* schedule of that moment no lab is placeable at any (day, slot) earlier
\* in the scan; when the scan of the week ends without a placement, no lab
\* is placeable at any (day, lab slot) of the week
C20_LabsFirstFit ==
    [][lab_attempt =>
          (/\ Len(timetable') > Len(timetable) =>
                 /\ timetable'[Len(timetable')].day = DAYS_OF_WEEK[di]
                 /\ timetable'[Len(timetable')].time_slot = LAB_SLOTS[ti]
                 /\ lab_placeable_as_specified(LabWork[k].class_id, LabWork[k].subject_id,
                                               LabWork[k].batch, DAYS_OF_WEEK[di], LAB_SLOTS[ti])
                 /\ \A d \in 1..Len(DAYS_OF_WEEK), t \in 1..Len(LAB_SLOTS) :
                       scanned_before(d, t) =>
                           ~ lab_placeable_as_specified(
                                 LabWork[k].class_id, LabWork[k].subject_id,
                                 LabWork[k].batch, DAYS_OF_WEEK[d], LAB_SLOTS[t])
           /\ (k' = k + 1 /\ timetable' = timetable) =>
                 \A d \in 1..Len(DAYS_OF_WEEK), t \in 1..Len(LAB_SLOTS) :
                     ~ lab_placeable_as_specified(
                           LabWork[k].class_id, LabWork[k].subject_id,
                           LabWork[k].batch, DAYS_OF_WEEK[d], LAB_SLOTS[t]))]_vars

\* the lab pass has just placed a lab later than Monday morning, after
\* other labs
C20_Witness ==
    /\ pc = "labs"
    /\ Len(timetable) >= 2
    /\ timetable[Len(timetable)].day = "Tuesday"
    /\ k > 1 /\ di = 1 /\ ti = 1

\* the lab pass has returned with one batch placed and another left at 0
C20_WitnessUnplaced ==
    /\ pc = "lectures"
    /\ \E key \in lab_counter_keys : batch_lab_counts[key[1]][key[2]][key[3]] = 0
    /\ \E key \in lab_counter_keys : batch_lab_counts[key[1]][key[2]][key[3]] = 1

\* the step is an add_lecture call of the lecture pass
lecture_attempt ==
    /\ pc = "lectures"
    /\ k <= Len(LectureWork)
    /\ count_lectures_on_day(LectureWork[k].class_id, DAYS_OF_WEEK[di]) < min_lectures_per_day
    /\ TIME_SLOTS[ti].start # LUNCH_BREAK.start

\* the step is an add_lecture call of the minimum-fill pass
fill_attempt ==
    /\ pc = "fill"
    /\ k <= Len(FillWork)
    /\ si \in 1..Len(FillWork[k].class_obj.subjects)
    /\ LET class_id   == FillWork[k].class_obj.id
           subject_id == FillWork[k].class_obj.subjects[si]
       IN  /\ subject_id \in DOMAIN subject_lecture_counts[class_id]
           /\ can_add_lecture(class_id, subject_id)
           /\ is_lecture_subject(subject_id)
    /\ TIME_SLOTS[ti].start # LUNCH_BREAK.start

\* no faculty candidate: none of the subject's faculty ids passes the test
\* of the candidate loop
no_faculty_candidate(subject_id, day, time_slot) ==
    \A n \in 1..Len(faculty_ids_of(subject_id)) :
        ~ faculty_candidate_ok(faculty_ids_of(subject_id)[n], day, time_slot)

\* no free resource of the kind
no_free_resource(is_lab, day, time_slot) ==
    \A n \in 1..Len(resources_of_type(is_lab)) :
        ~ is_resource_available(resources_of_type(is_lab)[n].id, day, time_slot)

\* one of the reasons for which add_lecture fails: unknown subject, cap
\* reached, no faculty candidate, no free classroom, class busy
lecture_cannot_be_placed(class_id, subject_id, day, time_slot) ==
    \/ get_subject(subject_id) = NoObject
    \/ /\ subject_id \in DOMAIN subject_lecture_counts[class_id]
       /\ subject_lecture_counts[class_id][subject_id] >= 2
    \/ no_faculty_candidate(subject_id, day, time_slot)
    \/ no_free_resource(get_subject(subject_id).is_lab, day, time_slot)
    \/ ~ is_class_available(class_id, day, time_slot, None)

\* one of the reasons for which add_lab_session fails: unknown or non-lab
\* subject, batch busy, no faculty candidate, no free lab
lab_cannot_be_placed(class_id, subject_id, batch, day, lab_slot) ==
    \/ get_subject(subject_id) = NoObject
    \/ ~ get_subject(subject_id).is_lab
    \/ ~ is_class_available(class_id, day, lab_slot, batch)
    \/ no_faculty_candidate(subject_id, day, lab_slot)
    \/ no_free_resource(TRUE, day, lab_slot)

\* the step is a placement attempt of one of the passes that one of the
\* stated reasons makes fail
failing_attempt ==
    \/ /\ lab_attempt
       /\ lab_cannot_be_placed(LabWork[k].class_id, LabWork[k].subject_id,
                               LabWork[k].batch, DAYS_OF_WEEK[di], LAB_SLOTS[ti])
    \/ /\ lecture_attempt
       /\ lecture_cannot_be_placed(LectureWork[k].class_id, LectureWork[k].subject_id,
                                   DAYS_OF_WEEK[di], TIME_SLOTS[ti])
    \/ /\ fill_attempt
       /\ lecture_cannot_be_placed(FillWork[k].class_obj.id,
                                   FillWork[k].class_obj.subjects[si],
                                   FillWork[k].day, TIME_SLOTS[ti])

\* C21: a placement attempt of add_lecture or add_lab_session that fails
\* (unknown subject, cap reached, no faculty candidate, no free resource of
\* the kind, class or batch busy) leaves the schedule and all counters as
\* they were and returns False: the run does not enter the error state
C21_FailedAttemptReturnsFalse ==
    [][failing_attempt =>
          (/\ timetable' = timetable
           /\ subject_lecture_counts' = subject_lecture_counts
           /\ batch_lab_counts' = batch_lab_counts
           /\ pc' # "error")]_vars

\* the part of C21 about the schedule and the counters, without the part
\* about the call returning
FailedAttemptChangesNothing ==
    [][failing_attempt =>
          (/\ timetable' = timetable
           /\ subject_lecture_counts' = subject_lecture_counts
           /\ batch_lab_counts' = batch_lab_counts)]_vars

\* an attempt that does not fail for any of the reasons places an entry or
\* raises
SucceedingAttemptPlaces ==
    [][((lab_attempt \/ lecture_attempt \/ fill_attempt) /\ ~ failing_attempt) =>
          (Len(timetable') = Len(timetable) + 1 \/ pc' = "error")]_vars

\* the input holds a resource of this id and this type
has_resource(resource_id, type) ==
    \E n \in 1..Len(resources) :
        resources[n].id = resource_id /\ resources[n].type = type

\* the input holds a resource of this type
has_resource_of_type(type) ==
    \E n \in 1..Len(resources) : resources[n].type = type

\* C22: in every state of a run, hence in the schedule generate() returns,
\* an entry with a batch label uses a resource of type lab and a whole-class
\* entry a resource of type classroom; with no resource of a type in the
\* input there is no entry of that kind
C22_ResourceOfTheRequiredKind ==
    /\ \A i \in Entries :
          has_resource(timetable[i].resource_id,
                       IF timetable[i].batch # None THEN "lab" ELSE "classroom")
    /\ ~ has_resource_of_type("lab") => \A i \in Entries : timetable[i].batch = None
    /\ ~ has_resource_of_type("classroom") => \A i \in Entries : timetable[i].batch # None

\* a returned schedule with a lab entry and a whole-class entry
C22_Witness ==
    /\ pc = "done"
    /\ \E i, j \in Entries : timetable[i].batch # None /\ timetable[j].batch = None

\* a returned schedule of labs alone for an input without classroom
C22_WitnessNoClassroom ==
    /\ pc = "done"
    /\ ~ has_resource_of_type("classroom")
    /\ timetable # <<>>

\* a returned schedule of lectures alone for an input without lab
C22_WitnessNoLab ==
    /\ pc = "done"
    /\ ~ has_resource_of_type("lab")
    /\ timetable # <<>>

\* the step is a call of generate()
generate_called == calls' = calls + 1

\* C23: every call of generate(), the first or a later one, after a run that
\* returned or one that raised, starts its passes from the empty schedule,
\* the counters of the input all at 0 and the lab pass at its first item:
\* the state a run starts from is a function of the input alone, so that
\* nothing of an earlier call is left in it
C23_EachCallStartsAfresh ==
    [][generate_called =>
          (/\ timetable' = <<>>
           /\ subject_lecture_counts' = init_subject_lecture_counts
           /\ batch_lab_counts' = init_batch_lab_counts
           /\ pc' = "labs"
           /\ k' = 1 /\ di' = 1 /\ ti' = 1 /\ si' = 0
           /\ lectures_added' = 0 /\ lecture_count' = 0
           /\ inputs' = inputs)]_vars

\* a second call has returned a schedule with entries
C23_Witness ==
    /\ calls = 2
    /\ pc = "done"
    /\ timetable # <<>>

\* a second call has raised
C23_WitnessAfterError ==
    /\ calls = 2
    /\ pc = "error"

\* the counters of a state during the second call are those of its schedule
\* alone
C23_WitnessCountersOfSecondCall ==
    /\ calls = 2
    /\ pc = "done"
    /\ \E i \in Entries :
          /\ timetable[i].batch = None
          /\ subject_lecture_counts[timetable[i].class_id][timetable[i].subject_id] =
                Cardinality(entries_of(timetable[i].class_id, timetable[i].subject_id, None))

\* the validator's report holds a minimum_lectures finding for the class of
\* index ci and the day, with the count of the schedule
has_minimum_lectures_finding(ci, day) ==
    \E n \in 1..Len(issues.minimum_lectures) :
        issues.minimum_lectures[n] =
            [class_name |-> classes[ci].name,
             lecture_count |-> count_lectures_on_day(classes[ci].id, day),
             day |-> day]

lecture_count_of(class_id, subject_id) ==
    IF /\ class_id \in DOMAIN subject_lecture_counts
       /\ subject_id \in DOMAIN subject_lecture_counts[class_id]
    THEN subject_lecture_counts[class_id][subject_id]
    ELSE 0

\* for every class of the list and each of its subjects the lecture counter
\* is the number of whole-class entries, and for each of its lab subjects
\* and batches the lab counter is the number of entries
counters_agree ==
    \A ci \in 1..Len(classes) :
        /\ \A subject_id \in Range(classes[ci].subjects) :
              lecture_count_of(classes[ci].id, subject_id) =
                  Cardinality(entries_of(classes[ci].id, subject_id, None))
        /\ \A subject_id \in lab_subject_ids(classes[ci]) :
              \A batch \in Range(classes[ci].batches) :
                  lab_count(classes[ci].id, subject_id, batch) =
                      Cardinality(entries_of(classes[ci].id, subject_id, batch))

\* C25: in every state of a run the counters agree with the schedule: the
\* lecture counter of every (class, subject) is the number of whole-class
\* entries of that class and subject, the lab counter of every (class, lab
\* subject, batch) the number of entries of that class, subject and batch
C25_CountersAgreeWithSchedule == counters_agree

\* the counters agree in every state that no raise has produced
CountersAgreeUnlessRaised == pc # "error" => counters_agree

\* every counter the dicts hold is the number of the entries of its key
CountersAgreeOverKeys ==
    /\ \A key \in lab_counter_keys :
          batch_lab_counts[key[1]][key[2]][key[3]] =
              Cardinality(entries_of(key[1], key[2], key[3]))
    /\ \A class_id \in DOMAIN subject_lecture_counts :
          \A subject_id \in DOMAIN subject_lecture_counts[class_id] :
              subject_lecture_counts[class_id][subject_id] =
                  Cardinality(entries_of(class_id, subject_id, None))

\* a returned schedule with a lecture counter at 2 and a lab counter above 1
CountersAgree_Witness ==
    /\ pc = "done"
    /\ \E class_id \in class_ids :
          /\ \E subject_id \in DOMAIN subject_lecture_counts[class_id] :
                subject_lecture_counts[class_id][subject_id] = 2
          /\ \E key \in lab_counter_keys : 
                key[1] = class_id /\ batch_lab_counts[key[1]][key[2]][key[3]] > 1

\* the entry is for a class of the list that studies its subject and, when
\* the entry has a batch label, has that batch
class_of_entry_sound(entry) ==
    \E ci \in 1..Len(classes) :
        /\ classes[ci].id = entry.class_id
        /\ entry.subject_id \in Range(classes[ci].subjects)
        /\ entry.batch # None => entry.batch \in Range(classes[ci].batches)

\* the ids of the entry name a subject, a faculty of that subject's list and
\* a resource of the input, and the entry has a batch label exactly when the
\* subject is a lab
referentially_sound(entry) ==
    /\ class_of_entry_sound(entry)
    /\ \E n \in 1..Len(subjects) : subjects[n].id = entry.subject_id
    /\ \E n \in 1..Len(faculties) : faculties[n].id = entry.faculty_id
    /\ entry.faculty_id \in Range(get_subject(entry.subject_id).faculty_ids)
    /\ \E n \in 1..Len(resources) : resources[n].id = entry.resource_id
    /\ entry.batch # None <=> get_subject(entry.subject_id).is_lab

\* C26: every entry of the schedule generate() returns is referentially
\* sound: its subject exists and is in the subject list of its class, its
\* faculty exists and is in the subject's faculty list, its resource exists,
\* its batch label, when it has one, is a batch of its class and its subject
\* a lab, and an entry without batch label is for a non-lab subject
C26_EntriesReferentiallySound ==
    pc = "done" => \A i \in Entries : referentially_sound(timetable[i])

\* the same in every state of a run, returned or not
EntriesSoundInEveryState ==
    \A i \in Entries : referentially_sound(timetable[i])

\* a returned schedule with a lab entry and a lecture entry, for an input
\* with a class that lists an unknown subject and subjects that list unknown
\* faculty
C26_Witness ==
    /\ pc = "done"
    /\ \E i, j \in Entries : timetable[i].batch # None /\ timetable[j].batch = None
    /\ \E ci \in 1..Len(classes) : \E subject_id \in Range(classes[ci].subjects) :
          get_subject(subject_id) = NoObject
    /\ \E n \in 1..Len(subjects) : \E faculty_id \in Range(subjects[n].faculty_ids) :
          get_faculty(faculty_id) = NoObject

====
